---- MODULE Spec2Model ----
(***************************************************************************)
(* ESP32-C3 NeoPixel lamp controller (src/main.py): the button sampler     *)
(* with debounce, the OLED sleep timer and the cooperative effect loop.    *)
(*                                                                         *)
(* The program is single-threaded.  Every step of the model is one call of *)
(* check_buttons() together with the code that runs up to the next call.   *)
(* The clock (time.ticks_ms), the two pin levels and the outcome of the    *)
(* display driver calls are inputs of each step.                           *)
(***************************************************************************)
EXTENDS Integers, Sequences, FiniteSets

VARIABLES
    oled,                 \* TRUE iff the OLED object exists (oled is not None)
    button1_last_state,   \* previous sample of button 1 (TRUE = high = released)
    button2_last_state,   \* previous sample of button 2
    last_button1_time,    \* ticks of the last accepted event of button 1
    last_button2_time,    \* ticks of the last accepted event of button 2
    last_activity_time,   \* ticks of the last activity (display timer)
    display_sleeping,     \* the display-sleep flag
    current_effect,       \* index into effect_names
    current_color_index,  \* index into colors
    now,                  \* the latest reading of time.ticks_ms()
    np,                   \* the strip: Cleared, or the effect that painted it last
    pc,                   \* where the main program stands: [fn, i]
    slept,                \* ms of time.sleep() executed since the last check_buttons()
    halted,               \* an uncaught exception ended the program
    \* What the last step's check_buttons() call did (nothing, if it made none):
    ev1,                  \* with button 1: "none", "rejected", "wake" or "action"
    ev2,                  \* with button 2
    power_ev,             \* "wake": display_wake() ran; "sleep": display_sleep()
                          \* got past its guard; else "none"
    redraw,               \* update_display() got past its guard
    oled_error,           \* a display driver call raised
    \* History of the raw input, kept by the input sampler specifications:
    edge1_time,           \* clock reading of the latest falling edge of button 1
                          \* (0 before the first one)
    edge1_ok,             \* whether that edge was accepted
    edge2_time,           \* clock reading of the latest falling edge of button 2
    edge2_ok,             \* whether that edge was accepted
    same_tick,            \* the two latest polls read the same clock value
    \* The pixel output, kept by the frame specifications:
    led,                  \* the running effect's frame state and its latest
                          \* pixel write: [fn, c, i, k, arg, rgb, out]
    heat                  \* the first cells of effect_fire's heat array

vars == <<oled, button1_last_state, button2_last_state, last_button1_time,
          last_button2_time, last_activity_time, display_sleeping,
          current_effect, current_color_index, now, np, pc, slept, halted,
          ev1, ev2, power_ev, redraw, oled_error,
          edge1_time, edge1_ok, edge2_time, edge2_ok, same_tick, led, heat>>

----------------------------------------------------------------------------
(* Program constants                                                       *)

LED_COUNT == 66
debounce_delay == 200
DISPLAY_TIMEOUT == 30000

colors == << <<255, 0, 0>>, <<0, 255, 0>>, <<0, 0, 255>>, <<255, 255, 0>>,
             <<255, 0, 255>>, <<0, 255, 255>>, <<255, 128, 0>>,
             <<128, 0, 255>>, <<255, 255, 255>> >>

effect_names == << "All On", "Rainbow", "Color Wipe", "Chase", "Pulse",
                   "Runner", "Aurora", "Fire", "Breathing", "Off" >>

\* time.sleep(2) before the first update_display: the clock when
\* last_activity_time is first set (ticks count from power-up), in ms.
StartupDelay == 2000
\* time.sleep(1) after it, before the main loop is entered, in ms.
SettleDelay == 1000

----------------------------------------------------------------------------
(* Bounds of the model: the clock readings a check_buttons() call may see  *)

\* Debounce windows offered to the input sampler on its own.
MaxPresses == 2
\* Display timeouts offered to the input sampler on its own.
MaxIdle == 2
\* Debounce windows offered when the selection is cycled.
CyclePresses == 9
\* Debounce windows offered to the whole program.
LoopPresses == 1

\* The first check_buttons() call is made no earlier than this.
FirstPoll == StartupDelay + SettleDelay

\* Readings debounce_delay + 1 apart: an edge at each one passes the debounce.
PressGrid(n) == { FirstPoll + k * (debounce_delay + 1) : k \in 0..n }

\* Readings exactly DISPLAY_TIMEOUT - 1 + j after an activity at the
\* previous timeout reading (the first one counts from start-up).
IdleGrid(n, js) ==
    { StartupDelay + c * (DISPLAY_TIMEOUT + 1) - 1 + j : c \in 1..n, j \in js }

\* The input sampler: the grid, the readings half of and exactly
\* debounce_delay after the first one, and the readings DISPLAY_TIMEOUT and
\* DISPLAY_TIMEOUT + 1 after an activity.
Readings ==
    PressGrid(MaxPresses)
    \cup { FirstPoll + debounce_delay \div 2, FirstPoll + debounce_delay }
    \cup IdleGrid(MaxIdle, {0, 1})

CycleReadings == PressGrid(CyclePresses)

\* The whole program: the grid and the first reading past the display
\* timeout counted from start-up.
LoopReadings ==
    PressGrid(LoopPresses) \cup { StartupDelay + DISPLAY_TIMEOUT + 1 }

\* Which display driver method raises during a call ("none": no call raises).
Faults == {"none", "fill", "text", "show", "poweroff", "poweron"}

\* np when every LED is (0, 0, 0) after clear().
Cleared == -1

----------------------------------------------------------------------------
(* Helpers of check_buttons                                                *)

\* time.ticks_diff for readings less than half a tick period apart.
ticks_diff(a, b) == a - b

\* Variant of the edge test: the level alone.
FallingEdge_level(state, last_state) == state = FALSE

\* A falling edge: the sample is low and the previous sample was high.
FallingEdge(state, last_state) == state = FALSE /\ last_state = TRUE

\* Variants of the debounce test: inclusive, and absent.
DebounceOk_inclusive(t, last_time) == ticks_diff(t, last_time) >= debounce_delay
DebounceOk_absent(t, last_time) == TRUE

\* The debounce test of both buttons.
DebounceOk(t, last_time) == ticks_diff(t, last_time) > debounce_delay

\* Variant of the mode step: no wrap-around.
NextEffect_nowrap(e) == e + 1

NextEffect(e) == (e + 1) % Len(effect_names)

NextColor(c) == (c + 1) % Len(colors)

\* Variant of the display timeout test: inclusive.
TimedOut_inclusive(t, activity) == ticks_diff(t, activity) >= DISPLAY_TIMEOUT

\* The display timeout test.
TimedOut(t, activity) == ticks_diff(t, activity) > DISPLAY_TIMEOUT

\* display_wake() gets past its guard.
WakeRuns(present) == present

\* display_sleep() gets past its guard and calls the driver.
SleepCallsDriver(present, sleeping) == present /\ ~sleeping

\* Variant of the guard of update_display(): no test for a missing display.
UpdateCallsDriver_unguarded(present, sleeping) == ~sleeping

\* update_display() gets past its guard and calls the driver.
UpdateCallsDriver(present, sleeping) == present /\ ~sleeping

\* Variant of display_wake(): the flag is not cleared.
WakeFlag_kept(present, sleeping) == sleeping

\* display_sleeping after display_wake().
WakeFlag(present, sleeping) == IF WakeRuns(present) THEN FALSE ELSE sleeping

\* display_sleeping after display_sleep() with driver fault f.
SleepFlag(present, sleeping, f) ==
    IF ~SleepCallsDriver(present, sleeping) THEN sleeping
    ELSE IF f \in {"fill", "show", "poweroff"} THEN sleeping
    ELSE TRUE

\* A driver call raises inside update_display() (caught there).
UpdateFaulted(present, sleeping, f) ==
    UpdateCallsDriver(present, sleeping) /\ f \in {"fill", "text", "show"}

\* A driver call raises inside display_wake(): poweron (caught there), or a
\* call of the update_display() it ends with.
WakeFaulted(present, sleeping, f) ==
    WakeRuns(present)
    /\ ((sleeping /\ f = "poweron") \/ UpdateFaulted(present, FALSE, f))

\* A driver call raises inside display_sleep() (caught there).
SleepFaulted(present, sleeping, f) ==
    SleepCallsDriver(present, sleeping) /\ f \in {"fill", "show", "poweroff"}

\* Variant of update_display(): no try/except around the driver calls.
UpdateEscapes_uncaught(faulted) == faulted

\* An exception leaves update_display(), display_wake() or display_sleep(),
\* given that a driver call raised inside it: each body is a try/except.
UpdateEscapes(faulted) == FALSE
WakeEscapes(faulted) == FALSE
SleepEscapes(faulted) == FALSE

\* Variant: an accepted event leaves the activity time alone.
Stamp_stale(t, pressed, activity) == activity

\* last_activity_time after the button blocks: an accepted event sets it to
\* the call's clock reading (display_wake() sets it too, to a reading the
\* block then overwrites).
Stamp(t, pressed, activity) == IF pressed THEN t ELSE activity

\* The strip after the mode branch of button 1: clear().
StripAfterModeChange(strip) == Cleared

----------------------------------------------------------------------------
(* check_buttons(): one call, with clock reading t, pin levels s1 and s2   *)
(* (TRUE = high) and driver fault f.  The three stages are the button 1    *)
(* block, the button 2 block and the display timeout block; each yields    *)
(* the values it leaves behind.  When an exception escapes a block (field  *)
(* x), the assignments after the raising call in that block and the later  *)
(* blocks are not run and the program ends.                                *)

Accepted == {"wake", "action"}

Event(edge, acc, sleeping) ==
    IF ~edge THEN "none"
    ELSE IF ~acc THEN "rejected"
    ELSE IF sleeping THEN "wake"
    ELSE "action"

\* One button block: edge test, debounce test, then wake or action.
\* sleeping is display_sleeping on entry of the block.
ButtonBlock(t, state, last_state, last_time, sleeping, f) ==
    LET edge == FallingEdge(state, last_state)
        acc == edge /\ DebounceOk(t, last_time)
    IN  [ edge |-> edge,
          acc |-> acc,
          act |-> acc /\ ~sleeping,
          wake |-> acc /\ sleeping,
          ev |-> Event(edge, acc, sleeping),
          sleeping |-> IF acc /\ sleeping THEN WakeFlag(oled, sleeping)
                       ELSE sleeping,
          redraw |-> acc /\ IF sleeping
                            THEN WakeRuns(oled) /\ UpdateCallsDriver(oled, FALSE)
                            ELSE UpdateCallsDriver(oled, sleeping),
          fault |-> acc /\ IF sleeping THEN WakeFaulted(oled, sleeping, f)
                           ELSE UpdateFaulted(oled, sleeping, f),
          x |-> acc /\ IF sleeping
                       THEN WakeEscapes(WakeFaulted(oled, sleeping, f))
                       ELSE UpdateEscapes(UpdateFaulted(oled, sleeping, f)) ]

\* The display timeout block, given display_sleeping and last_activity_time
\* as the button blocks left them.
TimeoutBlock(t, sleeping, activity, f) ==
    LET timeout == ~sleeping /\ oled /\ TimedOut(t, activity)
    IN  [ called |-> timeout /\ SleepCallsDriver(oled, sleeping),
          sleeping |-> IF timeout THEN SleepFlag(oled, sleeping, f) ELSE sleeping,
          fault |-> timeout /\ SleepFaulted(oled, sleeping, f),
          x |-> timeout /\ SleepEscapes(SleepFaulted(oled, sleeping, f)) ]

\* The assignments of the call, from the three blocks' results.
Commit(t, s1, s2, r1, r2, r3) ==
    /\ now' = t
    /\ current_effect' = IF r1.act THEN NextEffect(current_effect)
                         ELSE current_effect
    /\ last_button1_time' = IF r1.acc /\ ~r1.x THEN t ELSE last_button1_time
    /\ button1_last_state' = IF r1.x THEN button1_last_state ELSE s1
    /\ current_color_index' =
           IF ~r1.x /\ r2.act THEN NextColor(current_color_index)
           ELSE current_color_index
    /\ last_button2_time' =
           IF ~r1.x /\ r2.acc /\ ~r2.x THEN t ELSE last_button2_time
    /\ button2_last_state' = IF r1.x \/ r2.x THEN button2_last_state ELSE s2
    /\ last_activity_time' =
           Stamp(t, (r1.acc /\ ~r1.x) \/ (~r1.x /\ r2.acc /\ ~r2.x),
                 last_activity_time)
    /\ display_sleeping' =
           IF r1.x THEN r1.sleeping
           ELSE IF r2.x THEN r2.sleeping
           ELSE r3.sleeping
    /\ halted' = (r1.x \/ r2.x \/ r3.x)
    /\ ev1' = r1.ev
    /\ ev2' = IF r1.x THEN "none" ELSE r2.ev
    /\ power_ev' =
           IF r1.wake \/ (~r1.x /\ r2.wake) THEN "wake"
           ELSE IF ~r1.x /\ ~r2.x /\ r3.called THEN "sleep"
           ELSE "none"
    /\ redraw' = (r1.redraw \/ (~r1.x /\ r2.redraw))
    /\ oled_error' =
           (r1.fault \/ (~r1.x /\ r2.fault) \/ (~r1.x /\ ~r2.x /\ r3.fault))
    /\ UNCHANGED oled

Timeout3(t, s1, s2, f, r1, r2) ==
    Commit(t, s1, s2, r1, r2,
           TimeoutBlock(t, r2.sleeping,
                        Stamp(t, r1.acc \/ r2.acc, last_activity_time), f))

Button2(t, s1, s2, f, r1) ==
    Timeout3(t, s1, s2, f, r1,
             ButtonBlock(t, s2, button2_last_state, last_button2_time,
                         r1.sleeping, f))

check_buttons(t, s1, s2, f) ==
    Button2(t, s1, s2, f,
            ButtonBlock(t, s1, button1_last_state, last_button1_time,
                        display_sleeping, f))

\* The value check_buttons() returned in this step: button_pressed.
Returned == ev1' \in Accepted \/ ev2' \in Accepted

\* The strip after the call: the mode branch of button 1 clears it.
StripAfterPoll == IF ev1' = "action" THEN StripAfterModeChange(np) ELSE np

\* The call reaches the display driver: only then can a driver call raise.
ReachesDriver(t, s1, s2) ==
    /\ oled
    /\ \/ FallingEdge(s1, button1_last_state) /\ DebounceOk(t, last_button1_time)
       \/ FallingEdge(s2, button2_last_state) /\ DebounceOk(t, last_button2_time)
       \/ ~display_sleeping /\ TimedOut(t, last_activity_time)

FaultsOf(t, s1, s2) == IF ReachesDriver(t, s1, s2) THEN Faults ELSE {"none"}

----------------------------------------------------------------------------
(* Start-up: the module level code up to the main loop                     *)

Main == [fn |-> -1, i |-> 0]
In(e, i) == [fn |-> e, i |-> i]

\* No effect has written a pixel since clear(): the frame state of effect
\* e on entry, with color index c and LED i in view.
Entry(e, c, i) ==
    [fn |-> e, c |-> c, i |-> i, k |-> 0, arg |-> 0,
     rgb |-> <<0, 0, 0>>, out |-> <<>>]

\* The state on entry of the main loop with effect e and color c selected,
\* but for the pixel output.  The OLED probe either yields a display object
\* or leaves oled = None.
BootCore(e, c) ==
    /\ oled \in BOOLEAN
    /\ button1_last_state = TRUE
    /\ button2_last_state = TRUE
    /\ last_button1_time = 0
    /\ last_button2_time = 0
    /\ last_activity_time = StartupDelay
    /\ display_sleeping = FALSE
    /\ current_effect = e
    /\ current_color_index = c
    /\ now = FirstPoll
    /\ np = Cleared
    /\ pc = Main
    /\ slept = 0
    /\ halted = FALSE
    /\ ev1 = "none"
    /\ ev2 = "none"
    /\ power_ev = "none"
    /\ redraw = FALSE
    /\ oled_error = FALSE
    /\ edge1_time = 0
    /\ edge1_ok = FALSE
    /\ edge2_time = 0
    /\ edge2_ok = FALSE
    /\ same_tick = FALSE

\* The state on entry of the main loop with effect e and color c selected.
Boot(e, c) ==
    /\ BootCore(e, c)
    /\ led = Entry(-1, c, 0)
    /\ heat = <<>>

Init == Boot(0, 0)

\* The main loop with any effect selected.  check_buttons() reads
\* current_effect only to advance it, and the timers only through
\* differences, so the runs from here are the runs of the program after
\* that many mode presses, shifted in time.
InitLoop == \E e \in 0..(Len(effect_names) - 1) : Boot(e, 0)

----------------------------------------------------------------------------
(* The input sampler on its own: successive check_buttons() calls, whoever *)
(* the caller is.  Every call is preceded by a time.sleep() of at least    *)
(* 10 ms, except the first call of an effect, which follows the main       *)
(* loop's call directly (lines 459-478): at most two calls in a row read   *)
(* the same clock value.                                                   *)

Poll(t, s1, s2, f) ==
    /\ ~halted
    /\ t > now \/ (t = now /\ ~same_tick)
    /\ check_buttons(t, s1, s2, f)
    /\ np' = StripAfterPoll
    /\ same_tick' = (t = now)
    /\ edge1_time' = IF ev1' # "none" THEN t ELSE edge1_time
    /\ edge1_ok' = IF ev1' # "none" THEN ev1' \in Accepted ELSE edge1_ok
    /\ edge2_time' = IF ev2' # "none" THEN t ELSE edge2_time
    /\ edge2_ok' = IF ev2' # "none" THEN ev2' \in Accepted ELSE edge2_ok
    /\ UNCHANGED <<pc, slept, led, heat>>

NextInput ==
    \E t \in Readings, s1 \in BOOLEAN, s2 \in BOOLEAN :
        \E f \in FaultsOf(t, s1, s2) : Poll(t, s1, s2, f)

SpecInput == Init /\ [][NextInput]_vars

\* The same with a reading for every selection of the cycle and a sound
\* display driver.
NextCycle ==
    \E t \in CycleReadings, s1 \in BOOLEAN, s2 \in BOOLEAN :
        Poll(t, s1, s2, "none")

SpecCycle == Init /\ [][NextCycle]_vars

----------------------------------------------------------------------------
(* The effects and the main loop.  An effect call is cut at its            *)
(* check_buttons() calls: pc.i counts the calls made so far in the current *)
(* effect call, and one step is a check_buttons() call followed by the     *)
(* code up to the next one (pixel writes, sleeps, loop exit, return to the *)
(* main loop and its 10 ms sleep).  The local frame state of Aurora, Fire  *)
(* and Breathing (offset, heat, step) is not part of pc.                   *)

PulseSteps == 50
RainbowFrames == 255
ChaseCycles == 10

\* The number of check_buttons() calls in one uninterrupted call of effect
\* e; All On and Off make none, Aurora, Fire and Breathing loop for ever.
EffectPolls(e) ==
    CASE e = 1 -> RainbowFrames
      [] e = 2 -> LED_COUNT + LED_COUNT
      [] e = 3 -> ChaseCycles
      [] e = 4 -> PulseSteps + PulseSteps
      [] e = 5 -> LED_COUNT + LED_COUNT
      [] OTHER -> 0

\* Variant: no effect loops until a press.
LoopsForever_none(e) == FALSE

LoopsForever(e) == e \in {6, 7, 8}

\* The ms slept in iteration i of effect e, after its check_buttons() call.
BodySleep(e, i) ==
    CASE e = 0 -> 50
      [] e = 1 -> 10
      [] e = 2 -> IF i = LED_COUNT - 1 THEN 50 + 500 ELSE 50
      [] e = 3 -> 3 * (50 + 50)
      [] e = 4 -> 20
      [] e = 5 -> 50
      [] e = 6 -> 30
      [] e = 7 -> 20
      [] e = 8 -> 20
      [] OTHER -> 100

\* The strip after the pixel writes of one iteration of effect e: Chase
\* ends each iteration with clear() and Off is clear(), the others leave
\* their own pixels.
BodyStrip(e) == IF e \in {3, 9} THEN Cleared ELSE e

\* The sleep at the bottom of the main loop, in ms.
MainSleep == 10

\* Variant: the effect ignores the value check_buttons() returned.
ReturnsOnPress_never(pressed) == FALSE

\* What an effect does with the value check_buttons() returned: it returns
\* when the value is True.
ReturnsOnPress(pressed) == pressed

\* The main loop: check_buttons(), whose result is not used, then the
\* dispatch on current_effect.
MainStep(t, s1, s2, f) ==
    /\ ~halted
    /\ pc = Main
    /\ t >= now
    /\ check_buttons(t, s1, s2, f)
    /\ np' = StripAfterPoll
    /\ UNCHANGED <<edge1_time, edge1_ok, edge2_time, edge2_ok, same_tick,
                   led, heat>>
    /\ IF halted' THEN UNCHANGED <<pc, slept>>
       ELSE /\ pc' = In(current_effect', 0)
            /\ slept' = 0

\* One iteration of a looping effect (Rainbow .. Breathing): check_buttons(),
\* return if it reports a press, else the body of the iteration.
EffectStep(t, s1, s2, f) ==
    /\ ~halted
    /\ pc.fn \in 1..8
    /\ t >= now
    /\ check_buttons(t, s1, s2, f)
    /\ UNCHANGED <<edge1_time, edge1_ok, edge2_time, edge2_ok, same_tick,
                   led, heat>>
    /\ IF halted' THEN
           /\ np' = StripAfterPoll
           /\ UNCHANGED <<pc, slept>>
       ELSE IF ReturnsOnPress(Returned) THEN
           /\ np' = StripAfterPoll
           /\ slept' = MainSleep
           /\ pc' = Main
       ELSE
           /\ np' = BodyStrip(pc.fn)
           /\ IF LoopsForever(pc.fn) THEN
                  /\ pc' = pc
                  /\ slept' = BodySleep(pc.fn, pc.i)
              ELSE IF pc.i + 1 < EffectPolls(pc.fn) THEN
                  /\ pc' = In(pc.fn, pc.i + 1)
                  /\ slept' = BodySleep(pc.fn, pc.i)
              ELSE
                  /\ pc' = Main
                  /\ slept' = BodySleep(pc.fn, pc.i) + MainSleep

\* effect_all_on() and effect_off(): pixel writes and a sleep, with no
\* check_buttons() call, then back to the main loop.
PlainStep ==
    /\ ~halted
    /\ pc.fn \in {0, 9}
    /\ np' = BodyStrip(pc.fn)
    /\ slept' = BodySleep(pc.fn, 0) + MainSleep
    /\ pc' = Main
    /\ ev1' = "none"
    /\ ev2' = "none"
    /\ power_ev' = "none"
    /\ redraw' = FALSE
    /\ oled_error' = FALSE
    /\ UNCHANGED <<oled, button1_last_state, button2_last_state,
                   last_button1_time, last_button2_time, last_activity_time,
                   display_sleeping, current_effect, current_color_index,
                   now, halted, edge1_time, edge1_ok, edge2_time, edge2_ok,
                   same_tick, led, heat>>

Next ==
    \/ \E t \in LoopReadings, s1 \in BOOLEAN, s2 \in BOOLEAN :
           \E f \in FaultsOf(t, s1, s2) : MainStep(t, s1, s2, f)
    \/ \E t \in LoopReadings, s1 \in BOOLEAN, s2 \in BOOLEAN :
           \E f \in FaultsOf(t, s1, s2) : EffectStep(t, s1, s2, f)
    \/ PlainStep

Spec == InitLoop /\ [][Next]_vars

----------------------------------------------------------------------------
(* The pixel values.  int(x * brightness) is the truncation of the exact   *)
(* product, except that a product that is a whole number may come out of   *)
(* the float multiplication just below it (the float nearest to the        *)
(* brightness can lie below it), and then truncates to one less.           *)

Min(a, b) == IF a <= b THEN a ELSE b
Max(a, b) == IF a >= b THEN a ELSE b

\* int(x * (num / den)) for x >= 0 and 0 <= num / den <= 1: the values the
\* float arithmetic can give.
Truncations(x, num, den) ==
    LET p == x * num
        q == p \div den
    IN  IF p % den = 0 /\ p > 0 THEN {q - 1, q} ELSE {q}

\* The triples set_color() and set_all() can write for color rgb at
\* brightness num / den.
Scaled(rgb, num, den) ==
    { <<r, g, b>> : r \in Truncations(rgb[1], num, den),
                    g \in Truncations(rgb[2], num, den),
                    b \in Truncations(rgb[3], num, den) }

\* The default brightness of set_color() and set_all(): 0.3.
DefaultScaled(rgb) == Scaled(rgb, 3, 10)

\* Variant of wheel(): the position is not rebased in the later bands.
wheel_unrebased(pos) ==
    IF pos < 85 THEN <<pos * 3, 255 - pos * 3, 0>>
    ELSE IF pos < 170 THEN <<255 - pos * 3, 0, pos * 3>>
    ELSE <<0, pos * 3, 255 - pos * 3>>

wheel(pos) ==
    IF pos < 85 THEN <<pos * 3, 255 - pos * 3, 0>>
    ELSE IF pos < 170 THEN <<255 - (pos - 85) * 3, 0, (pos - 85) * 3>>
    ELSE <<0, (pos - 170) * 3, 255 - (pos - 170) * 3>>

\* effect_rainbow_cycle: the wheel position of LED i in frame j
\* (pixel_index & 255).
RainbowPos(i, j) == ((i * 256) \div LED_COUNT + j) % 256

\* Variant of the pulse envelope: the ramp keeps rising in the second half.
PulseStep_rising(k) == k

\* effect_pulse: the value of the loop variable brightness in iteration k
\* of the call: range(steps), then range(steps, 0, -1).
PulseStep(k) == IF k < PulseSteps THEN k ELSE PulseSteps + PulseSteps - k

\* effect_aurora: the palette.
aurora_colors == << <<0, 255, 80>>, <<0, 255, 180>>, <<0, 200, 255>>,
                    <<0, 100, 255>>, <<80, 0, 255>>, <<150, 0, 200>>,
                    <<0, 180, 130>> >>

palette_len == Len(aurora_colors)

\* effect_aurora: the palette position of LED i at the given offset.
AuroraPos(i, offset) ==
    ((i * palette_len * 256) \div LED_COUNT + offset) % (palette_len * 256)

\* Variant of the blend: no shift back by 8 bits.
AuroraMix_unshifted(a, b, frac) == a * (256 - frac) + b * frac

\* effect_aurora: one channel of the blend of two palette entries.
AuroraMix(a, b, frac) == (a * (256 - frac) + b * frac) \div 256

AuroraBlend(pos) ==
    LET c1 == aurora_colors[pos \div 256 + 1]
        c2 == aurora_colors[((pos \div 256 + 1) % palette_len) + 1]
        frac == pos % 256
    IN  << AuroraMix(c1[1], c2[1], frac), AuroraMix(c1[2], c2[2], frac),
           AuroraMix(c1[3], c2[3], frac) >>

\* effect_fire: the color of heat t.
FireColor(t) ==
    IF t > 170 THEN <<255, 255, Min(255, (t - 170) * 3)>>
    ELSE IF t > 85 THEN <<255, Min(255, (t - 85) * 3), 0>>
    ELSE <<Min(255, t * 3), 0, 0>>

----------------------------------------------------------------------------
(* The frames of the effects on their own: led.k is the frame counter of   *)
(* the running effect call (loop index, palette offset), and one step is   *)
(* one pixel write of the next frame: led.arg is the position, step or     *)
(* heat it was computed from, led.rgb the color before scaling and led.out *)
(* the triple written.  A call that has completed is followed by the next  *)
(* call of the same effect from the main loop.                             *)

\* The effects that read colors[current_color_index].
ColorEffects == {0, 2, 3, 4, 5, 8}

\* The levels offered for (math.sin(step) + 1.0) / 2.0, in 1/BreathGrid.
BreathGrid == 10

Write(k, arg, rgb, out) ==
    /\ led' = [led EXCEPT !.k = k, !.arg = arg, !.rgb = rgb, !.out = out]
    /\ UNCHANGED <<oled, button1_last_state, button2_last_state,
                   last_button1_time, last_button2_time, last_activity_time,
                   display_sleeping, current_effect, current_color_index,
                   now, np, pc, slept, halted, ev1, ev2, power_ev, redraw,
                   oled_error, edge1_time, edge1_ok, edge2_time, edge2_ok,
                   same_tick, heat>>

\* set_color() or set_all() with the selected color at the default brightness.
WritePlain(k) ==
    \E out \in DefaultScaled(colors[led.c + 1]) :
        Write(k, 0, colors[led.c + 1], out)

RenderAllOn == led.fn = 0 /\ WritePlain(0)

RenderRainbow ==
    /\ led.fn = 1
    /\ LET pos == RainbowPos(led.i, led.k)
       IN  \E out \in DefaultScaled(wheel(pos)) :
               Write((led.k + 1) % RainbowFrames, pos, wheel(pos), out)

\* The first pass writes the color, the second one (0, 0, 0).
RenderColorWipe ==
    /\ led.fn = 2
    /\ LET rgb == IF led.k < LED_COUNT THEN colors[led.c + 1]
                  ELSE <<0, 0, 0>>
       IN  \E out \in DefaultScaled(rgb) :
               Write((led.k + 1) % (LED_COUNT + LED_COUNT), led.k % LED_COUNT,
                     rgb, out)

\* Round q = led.k of a cycle writes LED led.i + q.
RenderChase ==
    /\ led.fn = 3
    /\ led.i + led.k < LED_COUNT
    /\ \E out \in DefaultScaled(colors[led.c + 1]) :
           Write((led.k + 1) % 3, led.i + led.k, colors[led.c + 1], out)

\* set_all(r, g, b, brightness=bright * 0.5) with bright = brightness / steps:
\* the argument takes the place of the default 0.3.
RenderPulse ==
    /\ led.fn = 4
    /\ LET b == PulseStep(led.k)
       IN  \E out \in Scaled(colors[led.c + 1], b, PulseSteps + PulseSteps) :
               Write((led.k + 1) % (PulseSteps + PulseSteps), b,
                     colors[led.c + 1], out)

RenderRunner ==
    /\ led.fn = 5
    /\ \E out \in DefaultScaled(colors[led.c + 1]) :
           Write((led.k + 1) % (LED_COUNT + LED_COUNT),
                 IF led.k < LED_COUNT THEN led.k
                 ELSE LED_COUNT + LED_COUNT - 1 - led.k,
                 colors[led.c + 1], out)

RenderAurora ==
    /\ led.fn = 6
    /\ LET pos == AuroraPos(led.i, led.k)
       IN  \E out \in DefaultScaled(AuroraBlend(pos)) :
               Write((led.k + 3) % (palette_len * 256), pos,
                     AuroraBlend(pos), out)

\* The color of a cell of heat t.
RenderFire ==
    /\ led.fn = 7
    /\ \E t \in 0..255 :
           \E out \in DefaultScaled(FireColor(t)) :
               Write(led.k, t, FireColor(t), out)

\* set_all(r, g, b, brightness=bright * 0.3) with bright at level n.
RenderBreathing ==
    /\ led.fn = 8
    /\ \E n \in 0..BreathGrid :
           \E out \in Scaled(colors[led.c + 1], 3 * n, 10 * BreathGrid) :
               Write(led.k, n, colors[led.c + 1], out)

\* clear()
RenderOff == led.fn = 9 /\ Write(0, 0, <<0, 0, 0>>, <<0, 0, 0>>)

\* An effect is entered with any color selected; the LED in view matters to
\* Rainbow, Chase and Aurora only.
InitFrame ==
    \E e \in 0..(Len(effect_names) - 1) :
        \E c \in IF e \in ColorEffects THEN 0..(Len(colors) - 1) ELSE {0} :
            \E i \in IF e \in {1, 6} THEN 0..(LED_COUNT - 1)
                     ELSE IF e = 3 THEN {3 * n : n \in 0..((LED_COUNT - 1) \div 3)}
                     ELSE {0} :
                /\ BootCore(e, c)
                /\ oled
                /\ led = Entry(e, c, i)
                /\ heat = <<>>

NextFrame ==
    \/ RenderAllOn
    \/ RenderRainbow
    \/ RenderColorWipe
    \/ RenderChase
    \/ RenderPulse
    \/ RenderRunner
    \/ RenderAurora
    \/ RenderFire
    \/ RenderBreathing
    \/ RenderOff

SpecFrame == InitFrame /\ [][NextFrame]_vars

----------------------------------------------------------------------------
(* effect_fire: the heat array.  Cell i of a frame depends on the cells    *)
(* below it only, so the first FireCells cells evolve on their own; a      *)
(* spark above them leaves them alone.  led.k counts the frames.           *)

\* effect_fire: cooling and sparking.
cooling == 10
sparking == 120

\* Cells of the heat array in view, and frames of one call.
FireCells == 3
FireFrames == 4

\* The largest cooling draw: random.randint(0, ((cooling * 10) // LED_COUNT) + 2).
CoolMax == (cooling * 10) \div LED_COUNT + 2

\* The draws offered: the ends of each range.
CoolDraws == {0, CoolMax}
SparkDraws == {160, 255}
SparkCells == 0..Min(7, LED_COUNT - 1)

Cool(h, d) == Max(0, h - d)

\* Variant of the spark: no upper clamp.
Spark_unclamped(h, add) == h + add

Spark(h, add) == Min(255, h + add)

\* Heat drifts up: cell i takes (heat[i - 1] + heat[i - 2] + heat[i - 2]) // 3,
\* from the top down, so from the cooled values (sequences count from 1).
Drift(cooled) ==
    [n \in 1..Len(cooled) |->
        IF n >= 3 THEN (cooled[n - 1] + cooled[n - 2] + cooled[n - 2]) \div 3
        ELSE cooled[n]]

\* One frame: cooling draws ds, then the drift, then a spark of size add at
\* cell y when the roll is below sparking.
FireFrame ==
    /\ led.fn = 7
    /\ led.k < FireFrames
    /\ \E ds \in [1..FireCells -> CoolDraws] :
           \E roll \in {sparking - 1, sparking}, y \in SparkCells,
              add \in SparkDraws :
               LET drifted == Drift([n \in 1..FireCells |-> Cool(heat[n], ds[n])])
               IN  heat' = IF roll < sparking /\ y < FireCells
                           THEN [drifted EXCEPT ![y + 1] = Spark(@, add)]
                           ELSE drifted
    /\ led' = [led EXCEPT !.k = @ + 1]
    /\ UNCHANGED <<oled, button1_last_state, button2_last_state,
                   last_button1_time, last_button2_time, last_activity_time,
                   display_sleeping, current_effect, current_color_index,
                   now, np, pc, slept, halted, ev1, ev2, power_ev, redraw,
                   oled_error, edge1_time, edge1_ok, edge2_time, edge2_ok,
                   same_tick>>

\* effect_fire is entered: heat = [0] * LED_COUNT.
InitFire ==
    /\ BootCore(7, 0)
    /\ oled
    /\ led = Entry(7, 0, 0)
    /\ heat = [n \in 1..FireCells |-> 0]

SpecFire == InitFire /\ [][FireFrame]_vars

----------------------------------------------------------------------------
(* Properties.  A step is described through the program's own variables:   *)

\* this step's check_buttons() sampled a falling edge of the button
EdgeStep1 == button1_last_state /\ ~button1_last_state'
EdgeStep2 == button2_last_state /\ ~button2_last_state'

\* this step's check_buttons() accepted an event of the button
AcceptStep1 == last_button1_time' # last_button1_time
AcceptStep2 == last_button2_time' # last_button2_time

\* the edge sampled in this step passes the debounce test as the code has it
Acceptable1 == EdgeStep1 /\ now' - last_button1_time > debounce_delay
Acceptable2 == EdgeStep2 /\ now' - last_button2_time > debounce_delay

\* C1 (invariant part): current_effect stays in 0..9 and
\* current_color_index in 0..8.
C1_Range == current_effect \in 0..9 /\ current_color_index \in 0..8

\* C1 (step part): an accepted press of button 1 with the display awake
\* sets current_effect to (current_effect + 1) mod 10, and an accepted press
\* of button 2 with the display awake (as button 1 left it) sets
\* current_color_index to (current_color_index + 1) mod 9.
C1_Step ==
    /\ (AcceptStep1 /\ ~display_sleeping)
           => current_effect' = (current_effect + 1) % 10
    /\ (AcceptStep2 /\ ~display_sleeping)
           => current_color_index' = (current_color_index + 1) % 9

\* C1: both indices stay in range and every accepted press with the display
\* awake advances its index cyclically (9 wraps to 0, 8 wraps to 0), after
\* any sequence of presses.
C1_Cycling == []C1_Range /\ [][C1_Step]_vars

\* C1 witness: both indices have just wrapped to 0 by an accepted press.
C1_Wrapped ==
    /\ current_effect = 0 /\ ev1 = "action"
    /\ current_color_index = 0 /\ ev2 = "action"

\* C2 as claimed: a check_buttons() call made while the display is asleep
\* leaves current_effect and current_color_index as they were.
C2_WakeConsumed ==
    [][display_sleeping =>
           /\ current_effect' = current_effect
           /\ current_color_index' = current_color_index]_vars

CloseEdges1 ==
    EdgeStep1 /\ edge1_time >= FirstPoll
    /\ now' - edge1_time <= debounce_delay
CloseEdges2 ==
    EdgeStep2 /\ edge2_time >= FirstPoll
    /\ now' - edge2_time <= debounce_delay

\* C4 as claimed: of two raw falling edges of a button within 200 ms of each
\* other exactly one is accepted.
C4_ExactlyOne ==
    [][/\ CloseEdges1 => (edge1_ok # AcceptStep1)
       /\ CloseEdges2 => (edge2_ok # AcceptStep2)]_vars

\* C4 amended: of two raw falling edges of a button within 200 ms of each
\* other at most one is accepted, and none is only when the second comes
\* within 200 ms of an earlier accepted event; no accepted event comes
\* 200 ms or less after the previous accepted event of the same button.
C4_AtMostOne ==
    [][/\ CloseEdges1 => ~(edge1_ok /\ AcceptStep1)
       /\ CloseEdges2 => ~(edge2_ok /\ AcceptStep2)
       /\ (CloseEdges1 /\ ~edge1_ok /\ ~AcceptStep1)
              => now' - last_button1_time <= debounce_delay
       /\ (CloseEdges2 /\ ~edge2_ok /\ ~AcceptStep2)
              => now' - last_button2_time <= debounce_delay
       /\ AcceptStep1 => now' - last_button1_time > debounce_delay
       /\ AcceptStep2 => now' - last_button2_time > debounce_delay]_vars

\* C4 witness: a falling edge was rejected less than 200 ms after the
\* accepted one before it.
C4_Bounce ==
    /\ ev1 = "rejected"
    /\ edge1_time = now
    /\ now - last_button1_time > 0
    /\ now - last_button1_time < debounce_delay

\* this step's check_buttons() accepted no event
NoAcceptStep == ~AcceptStep1 /\ ~AcceptStep2

C6_StripOfSelected ==
    /\ np \in {Cleared, current_effect}
    /\ pc # Main => pc.fn = current_effect

\* C6: an effect switch clears the strip in the step that changes
\* current_effect; from then until the newly selected effect paints, the
\* strip is all (0, 0, 0), and the effect that was running paints nothing
\* after the change.
C6_ClearOnSwitch ==
    /\ []C6_StripOfSelected
    /\ [][current_effect' # current_effect
             => np' = Cleared /\ pc' \in {Main, In(current_effect', 0)}]_vars

\* C6 witness: a press during a polling effect changed the mode; the effect
\* returned at once and the strip is cleared.
C6_Switched ==
    /\ ev1 = "action"
    /\ pc = Main
    /\ slept = MainSleep
    /\ np = Cleared
    /\ current_effect \in 2..9

\* C7 as claimed, with twice the claimed 50 ms as the limit: the sleep
\* executed between two consecutive check_buttons() calls is never longer.
C7_ShortSleeps == slept <= 2 * 50

\* C9 (step part): a poll in which a display driver call raised completes:
\* an accepted press in it has its mode or color change and its time
\* stamps, the main loop goes on to the selected effect, and a polling
\* effect without accepted press goes on to paint its frame.
C9_Step ==
    oled_error' =>
        /\ (AcceptStep1 /\ ~display_sleeping)
               => /\ current_effect' = (current_effect + 1) % 10
                  /\ np' = Cleared
        /\ (AcceptStep2 /\ ev2' = "action")
               => current_color_index' = (current_color_index + 1) % 9
        /\ ~NoAcceptStep => last_activity_time' = now'
        /\ pc = Main => pc' = In(current_effect', 0)
        /\ (pc # Main /\ NoAcceptStep)
               => /\ np' \in {Cleared, pc.fn}
                  /\ pc' \in {Main, pc, In(pc.fn, pc.i + 1)}

\* C9: a failure of a display driver call never stops the control loop:
\* the poll in which it happens completes, the mode or color change of its
\* press is applied, and the effects go on.
C9_LoopSurvives == []~halted /\ [][C9_Step]_vars

\* C9 witness: a driver call raised in a poll that changed the mode, and
\* the main loop is about to run.
C9_FaultyPress == oled_error /\ ev1 = "action" /\ redraw /\ ~halted

\* C8 (invariant part): without a display no display operation reaches the
\* driver, display_sleeping is False and no event is taken as a wake.
C8_NoDisplay ==
    ~oled => /\ ~display_sleeping
             /\ power_ev = "none"
             /\ ~redraw
             /\ ~oled_error
             /\ ev1 # "wake" /\ ev2 # "wake"

\* C8 (step part): without a display every accepted press does its mode or
\* color action.
C8_Step ==
    ~oled => /\ AcceptStep1 => current_effect' = (current_effect + 1) % 10
             /\ AcceptStep2
                    => current_color_index' = (current_color_index + 1) % 9

\* C8: headless operation: when oled is None every display operation is a
\* no-op, display_sleeping stays False in every reachable state, and every
\* accepted press performs its normal mode or color action.
C8_Headless == []C8_NoDisplay /\ [][C8_Step]_vars

\* C8 witness: without a display a press changed the mode more than a
\* display timeout after start-up.
C8_HeadlessPress ==
    /\ ~oled
    /\ ev1 = "action"
    /\ now - StartupDelay > DISPLAY_TIMEOUT

\* C10 as claimed: a falling edge is accepted if and only if at least
\* 200 ms have elapsed since the button's last accepted event, and nothing
\* is accepted without a falling edge.
C10_AtLeast ==
    [][/\ EdgeStep1
              => (AcceptStep1 <=> now' - last_button1_time >= debounce_delay)
       /\ EdgeStep2
              => (AcceptStep2 <=> now' - last_button2_time >= debounce_delay)
       /\ AcceptStep1 => EdgeStep1
       /\ AcceptStep2 => EdgeStep2]_vars

\* C10 amended: a falling edge is accepted if and only if more than 200 ms
\* have elapsed since the button's last accepted event (an edge exactly
\* 200 ms after it is rejected), and nothing is accepted without a falling
\* edge.
C10_MoreThan ==
    [][/\ EdgeStep1
              => (AcceptStep1 <=> now' - last_button1_time > debounce_delay)
       /\ EdgeStep2
              => (AcceptStep2 <=> now' - last_button2_time > debounce_delay)
       /\ AcceptStep1 => EdgeStep1
       /\ AcceptStep2 => EdgeStep2]_vars

\* C10 witness: a falling edge of button 2 was rejected exactly 200 ms
\* after the button's last accepted event.
C10_Boundary ==
    /\ ev2 = "rejected"
    /\ edge2_time = now
    /\ now - last_button2_time = debounce_delay

\* a pixel has been written by the running effect
Written == led.out # <<>>

\* C11 as claimed: during Pulse no channel written exceeds the truncation
\* of 0.15 times the selected color's channel.
C11_PulseDim ==
    (led.fn = 4 /\ Written) =>
        \A ch \in 1..3 : led.out[ch] <= (15 * colors[led.c + 1][ch]) \div 100

\* C11 amended: during Pulse the envelope (step/50)*0.5 takes the place of
\* the 0.3 brightness: no channel written exceeds the truncation of 0.5
\* times the selected color's channel (127 for a channel of 255), and the
\* truncation of (step/100) times the channel at each step.
C11_PulseHalf ==
    (led.fn = 4 /\ Written) =>
        \A ch \in 1..3 :
            /\ led.out[ch] <= colors[led.c + 1][ch] \div 2
            /\ led.out[ch] <= (led.arg * colors[led.c + 1][ch]) \div 100
            /\ led.out[ch] >= 0

\* C11 witness: Pulse at the top of its ramp writes 127 for a channel of 255.
C11_PulseTop ==
    /\ led.fn = 4
    /\ led.arg = 50
    /\ led.out = <<127, 127, 127>>

\* C12: every channel value written to the strip by any effect, for any
\* color index, frame counter, palette offset or heat value, is an integer
\* in 0..255.
C12_ChannelRange ==
    Written => \A ch \in 1..3 : led.out[ch] \in 0..255

\* C12 witness: Aurora has written a blended pixel late in its palette
\* cycle.
C12_AuroraLate ==
    /\ led.fn = 6
    /\ Written
    /\ led.arg % 256 # 0
    /\ led.k > 6 * 256
    /\ led.out[3] > 0

\* C13: after every frame of Fire, for any draws, every cell of the heat
\* array is in 0..255.
C13_HeatRange == \A n \in 1..Len(heat) : heat[n] \in 0..255

\* C13 witness: after the frames of the call cell 0 is at the upper end,
\* cell 1 at the lower end and cell 2 holds heat.
C13_Clamped ==
    /\ led.fn = 7
    /\ led.k = FireFrames
    /\ heat[1] = 255
    /\ heat[2] = 0
    /\ heat[3] > 0

Diff(a, b) == IF a >= b THEN a - b ELSE b - a

\* the channels of two colors are at most d apart
Near(x, y, d) == \A ch \in 1..3 : Diff(x[ch], y[ch]) <= d

\* C14 (values): wheel(0) = (0, 255, 0), and wheel(255) is within one ramp
\* step of it.
C14_Ends ==
    (led.fn = 1 /\ Written) =>
        /\ led.arg = 0 => led.rgb = <<0, 255, 0>>
        /\ led.arg = 255 => Near(led.rgb, <<0, 255, 0>>, 3)

\* C14 as claimed: wheel(0) = (0, 255, 0), wheel(255) is near wheel(0), and
\* each channel of wheel(84) and wheel(85) differs by at most 1.
C14_WithinOne ==
    /\ []C14_Ends
    /\ [][(led.fn = 1 /\ Written /\ led.arg = 84 /\ led'.arg = 85)
             => Near(led.rgb, led'.rgb, 1)]_vars

\* C14 amended: wheel(0) = (0, 255, 0), wheel(255) is near wheel(0) (equal
\* to it), and each channel of wheel(84) and wheel(85) differs by at most
\* 3, one step of the ramps, as between any two neighbouring positions.
C14_WithinStep ==
    /\ []C14_Ends
    /\ [][(led.fn = 1 /\ Written /\ led'.arg = (led.arg + 1) % 256)
             => Near(led.rgb, led'.rgb, 3)]_vars

\* C14 witness: Rainbow has written position 85, the first of the second
\* band, right after position 84.
C14_Boundary ==
    /\ led.fn = 1
    /\ led.i = 0
    /\ led.arg = 85
    /\ led.rgb = <<255, 0, 0>>
    /\ led.k = 86

\* the frame the next pixel write of Rainbow renders
RainbowDue == IF pc.fn = 1 THEN pc.i ELSE 0

\* C15 as claimed: a poll of Rainbow that accepts a button 2 press only
\* (display awake) increments the color index and leaves the frame
\* sequence as it is without the press: the frame that was due is written
\* in this step or is still the one due.
C15_RainbowUnaffected ==
    [][(pc.fn = 1 /\ AcceptStep2 /\ ~AcceptStep1 /\ ~display_sleeping) =>
           /\ current_color_index' = (current_color_index + 1) % 9
           /\ RainbowDue' \in {pc.i, pc.i + 1}]_vars

\* C16 as claimed: after a display_sleep() call in which a driver call
\* raised, the next poll without accepted event does not call
\* display_sleep() again.
C16_NoRetry ==
    [][(power_ev = "sleep" /\ oled_error /\ ~display_sleeping /\ NoAcceptStep)
           => power_ev' # "sleep"]_vars

\* check_buttons() calls of one call of effects 1 to 5
CyclePolls == <<255, 132, 10, 100, 132>>

\* C17 (step part): All On and Off return after their one pass; without an
\* accepted event a call of Rainbow, Color Wipe, Chase, Pulse or Runner
\* goes on to its next iteration and returns after the last one; a call of
\* Aurora, Fire or Breathing returns only in a step with an accepted event
\* and otherwise stays in its loop.
C17_Step ==
    /\ pc.fn \in {0, 9} => pc' = Main
    /\ (pc.fn \in 1..5 /\ NoAcceptStep)
           => pc' = IF pc.i + 1 < CyclePolls[pc.fn]
                    THEN [fn |-> pc.fn, i |-> pc.i + 1]
                    ELSE Main
    /\ (pc.fn \in 6..8 /\ pc' = Main) => ~NoAcceptStep
    /\ (pc.fn \in 6..8 /\ NoAcceptStep) => pc' = pc

\* C17: with no button press one call of a finite-cycle effect returns
\* after completing one cycle (its iteration count rises by one per step
\* up to a fixed number), and a call of Aurora, Fire or Breathing does not
\* return unless a poll inside it reports a press.
C17_Termination ==
    /\ [](pc.fn \in 1..5 => pc.i < CyclePolls[pc.fn])
    /\ [][C17_Step]_vars

\* C17 witness: a call of Pulse has returned after its last iteration,
\* without a press.
C17_PulseDone ==
    /\ pc = Main
    /\ current_effect = 4
    /\ slept = 20 + 10
    /\ ev1 = "none" /\ ev2 = "none"

\* C18: an accepted event while the display is asleep wakes it and sets the
\* activity time to the time of the poll; the display stays awake at every
\* poll up to 30000 ms after the activity time, and goes back to sleep at a
\* poll without accepted event more than 30000 ms after it (unless the
\* driver raises).
C18_WakeResets ==
    [][/\ (display_sleeping /\ ~NoAcceptStep)
              => /\ ~display_sleeping'
                 /\ last_activity_time' = now'
                 /\ power_ev' = "wake"
       /\ (~display_sleeping
              /\ now' - last_activity_time <= DISPLAY_TIMEOUT)
              => ~display_sleeping'
       /\ (oled /\ ~display_sleeping /\ NoAcceptStep /\ ~oled_error'
              /\ now' - last_activity_time > DISPLAY_TIMEOUT)
              => display_sleeping']_vars

\* C18 witness: a press has just woken the display, more than a timeout
\* after start-up.
C18_Woken ==
    /\ power_ev = "wake"
    /\ ~display_sleeping
    /\ last_activity_time = now
    /\ now - StartupDelay > DISPLAY_TIMEOUT

\* C19 as claimed: a poll that accepts a button 2 press only leaves
\* current_effect and the strip alone, one that accepts a button 1 press
\* only leaves current_color_index alone, and the two indices change only
\* in a poll that accepts a press of their button while the display is
\* awake.
C19_Frame ==
    [][/\ (AcceptStep2 /\ ~AcceptStep1)
              => current_effect' = current_effect /\ np' = np
       /\ (AcceptStep1 /\ ~AcceptStep2)
              => current_color_index' = current_color_index
       /\ current_effect' # current_effect
              => AcceptStep1 /\ ~display_sleeping
       /\ current_color_index' # current_color_index
              => AcceptStep2 /\ ~display_sleeping]_vars

\* C20: a button whose previous sample was low (held down since, or
\* rejected by the debounce window and not released) produces no event at
\* this poll, however long ago its last accepted event: no time stamp, no
\* mode or color change, no wake.
C20_NoRepeat ==
    [][/\ ~button1_last_state
              => /\ last_button1_time' = last_button1_time
                 /\ current_effect' = current_effect
       /\ ~button2_last_state
              => /\ last_button2_time' = last_button2_time
                 /\ current_color_index' = current_color_index
       /\ (~button1_last_state /\ ~button2_last_state)
              => /\ last_activity_time' = last_activity_time
                 /\ display_sleeping => display_sleeping']_vars

\* C20 witness: button 1 is still low after a falling edge that the
\* debounce window rejected, the window has passed since, and the latest
\* poll produced no event.
C20_HeldPastWindow ==
    /\ ~button1_last_state
    /\ ev1 = "none"
    /\ ~edge1_ok
    /\ edge1_time >= FirstPoll
    /\ now > edge1_time
    /\ now - last_button1_time > debounce_delay

====
